---- MODULE Spec2Model ----
(***************************************************************************)
(* A model of the interactsh client (pkg/client/client.go): construction   *)
(* and registration (New, generateRSAKeyPair), the polling goroutine       *)
(* (StartPolling, getInteractions, StopPolling), teardown (Close) and the  *)
(* identifier generator (URL, objectIDCounter).                            *)
(*                                                                         *)
(* The caller's operations are atomic steps of one caller goroutine; each  *)
(* goroutine launched by StartPolling is a task with its own position.     *)
(* URL() is called from several goroutines at once and is split at the     *)
(* atomic add of the shared counter.                                       *)
(***************************************************************************)
EXTENDS Naturals, Sequences, FiniteSets, TLC

(***************************************************************************)
(* Bounds of the model.                                                    *)
(***************************************************************************)
\* StartPolling calls made by the caller in one behaviour.
MaxStarts == 2
\* Close calls made by the caller in one behaviour.
MaxCloses == 2
\* Load on the process at any one time: ciphertext blobs in the poll
\* responses being worked through, each goroutine launched by StartPolling
\* weighing as two blobs.  A goroutine is launched, and a response carries
\* blobs, only within this load.
MaxLoad == 4
\* Width in bits of the two uint32 fields of an identifier (32 in the code).
WordBits == 2
\* URL() calls started in one behaviour of the identifier generator.
MaxCalls == 5
\* Largest value of the wall clock, in seconds.
MaxClock == 1
\* Goroutines calling URL() at the same time.
NumCallers == 2

(***************************************************************************)
(* Program constants.                                                      *)
(***************************************************************************)
\* The only status generateRSAKeyPair, getInteractions and Close accept.
StatusOK == 200

\* Go's nil error, and the text of a non-nil one.
Nil == "<nil>"

\* github.com/pkg/errors.Wrap: "If err is nil, Wrap returns nil."
Wrap(err, message) == IF err = Nil THEN Nil ELSE message \o ": " \o err

\* A nil *Client.
NoClient == [nil |-> TRUE]

(***************************************************************************)
(* The transport: what httpClient.Do can return for one request.           *)
(***************************************************************************)
Statuses == {200, 500}

DoOutcomes ==
    {[err |-> "connection refused", status |-> 0]}
        \cup {[err |-> Nil, status |-> s] : s \in Statuses}

(***************************************************************************)
(* url.Parse on the addresses the caller may configure.                    *)
(***************************************************************************)
ServerURLs == {"https://interact.sh", ":interact.sh"}

UrlParse(raw) ==
    IF raw = ":interact.sh"
    THEN [err |-> "missing protocol scheme", url |-> "", host |-> ""]
    ELSE [err |-> Nil, url |-> raw, host |-> "interact.sh"]

(***************************************************************************)
(* Hybrid encryption (tink) and JSON, as far as the client uses them.      *)
(***************************************************************************)
KeyPairs ==
    { [priv |-> "priv-k1", pub |-> "pub-k1"],
      [priv |-> "priv-k2", pub |-> "pub-k2"] }

\* khPriv.Public(): the public half of a private keyset.
Public(priv) == (CHOOSE kp \in KeyPairs : kp.priv = priv).pub

\* The keypair keyset.NewHandle hands to the client under test.
OwnKey == "priv-k1"

\* What the server (or anything else) does to produce a blob.
Encrypt(pub, plaintext) == [key |-> pub, sealed |-> plaintext]

\* c.decrypter.Decrypt(data, nil)
Decrypt(priv, blob) ==
    IF blob.key = Public(priv)
    THEN [err |-> Nil, plaintext |-> blob.sealed]
    ELSE [err |-> "decryption failed", plaintext |-> ""]

Interactions == {"dns", "http"}

Marshal(interaction) == "{\"protocol\":\"" \o interaction \o "\"}"

\* Unmarshal that yields the same interaction whatever the plaintext says.
Unmarshal_Constant(plaintext) ==
    IF \E i \in Interactions : Marshal(i) = plaintext
    THEN [err |-> Nil, interaction |-> "dns"]
    ELSE [err |-> "invalid json", interaction |-> ""]

\* jsoniter.Unmarshal(plaintext, interaction)
Unmarshal(plaintext) ==
    IF \E i \in Interactions : Marshal(i) = plaintext
    THEN [err |-> Nil,
          interaction |-> CHOOSE i \in Interactions : Marshal(i) = plaintext]
    ELSE [err |-> "invalid json", interaction |-> ""]

\* The blobs a poll response may carry.
Blobs ==
    {Encrypt(Public(OwnKey), Marshal(i)) : i \in Interactions}
        \cup { Encrypt(Public(OwnKey), "not json"),
               Encrypt("pub-k2", Marshal("dns")) }

RECURSIVE SeqsUpTo(_, _)
SeqsUpTo(S, n) ==
    IF n = 0 THEN {<<>>}
    ELSE LET shorter == SeqsUpTo(S, n - 1)
         IN  shorter \cup {Append(s, x) : s \in {q \in shorter : Len(q) = n - 1}, x \in S}

VARIABLES
    client,        \* the *Client New returned (its fields set at construction), or NoClient
    newRet,        \* what New returned: [client, err]
    quitChan,      \* c.quitChan: 0 is the nil channel, n the channel made by the n-th StartPolling
    closedChans,   \* the channels close() has closed
    tasks,         \* the goroutines StartPolling launched, in launch order
    requests,      \* the POST requests sent (register, deregister), in order
    polled,        \* the GET URLs requested
    closeCalls,    \* number of Close calls that have returned
    closeRet,      \* what the last Close call returned
    panicked,      \* the process died of a runtime panic
    objectIDCounter, \* the process-wide counter URL increments
    clock,         \* the wall clock, in seconds: what time.Now().Unix() returns
    peers,         \* the other clients constructed in this process
    urlCalls,      \* per calling goroutine, the URL() call it is in
    issued,        \* the identifiers URL() has returned, each with the ordinal of its atomic add
    addCount       \* number of atomic adds made on objectIDCounter, not wrapped

urlVars == <<objectIDCounter, clock, peers, urlCalls, issued, addCount>>

pollVars == <<client, newRet, quitChan, closedChans, tasks,
              requests, polled, closeCalls, closeRet, panicked>>

vars == <<pollVars, urlVars>>

NotCalled == [called |-> FALSE]

Callers == 1..NumCallers

Idle == [pc |-> "idle"]

InitURLVars ==
    /\ objectIDCounter = 0
    /\ clock = 0
    /\ urlCalls = [g \in Callers |-> Idle]
    /\ issued = {}
    /\ addCount = 0

Init ==
    /\ InitURLVars
    /\ peers = {}
    /\ client = NoClient
    /\ newRet = NotCalled
    /\ quitChan = 0
    /\ closedChans = {}
    /\ tasks = <<>>
    /\ requests = <<>>
    /\ polled = {}
    /\ closeCalls = 0
    /\ closeRet = NotCalled
    /\ panicked = FALSE

(***************************************************************************)
(* New and generateRSAKeyPair.                                             *)
(***************************************************************************)
\* The steps of generateRSAKeyPair that can fail before the request is made:
\* keyset.NewHandle, hybrid.NewHybridDecrypt, khPriv.Public,
\* insecurecleartextkeyset.Write and keyset.XXX_Marshal.
KeygenSteps == {"NewHandle", "NewHybridDecrypt", "Public", "Write", "XXX_Marshal"}

KeygenMessage(step) ==
    CASE step = "NewHandle" -> "could not generate encryption keyset"
      [] step = "NewHybridDecrypt" -> "could not create new decrypter"
      [] step = "Public" -> "could not get keyset public-key"
      [] step = "Write" -> "could not write keyset public key"
      [] step = "XXX_Marshal" -> "could not marshal public key"

\* RegisterRequest serialising the private keyset in place of the public one.
RegisterRequest_SendsPrivateKey(c, key) ==
    [method |-> "POST",
     url |-> c.serverURL.url \o "/register",
     path |-> "/register",
     body |-> [PublicKey |-> OwnKey,
               SecretKey |-> c.secretKey,
               CorrelationID |-> c.correlationID]]

\* server.RegisterRequest as POSTed to /register.
RegisterRequest(c, key) ==
    [method |-> "POST",
     url |-> c.serverURL.url \o "/register",
     path |-> "/register",
     body |-> [PublicKey |-> key,
               SecretKey |-> c.secretKey,
               CorrelationID |-> c.correlationID]]

\* What generateRSAKeyPair returns when the response status is not 200:
\* it wraps err, which is nil once the transport error has been ruled out.
RegisterStatusError(err) == Wrap(err, "could not register to server")

\* generateRSAKeyPair posting the register request a second time.
generateRSAKeyPair_Resends(c, failAt, do) ==
    IF failAt \in KeygenSteps
    THEN [err |-> Wrap("tink: " \o failAt, KeygenMessage(failAt)),
          decrypter |-> IF failAt \in {"NewHandle", "NewHybridDecrypt"}
                        THEN "" ELSE OwnKey,
          sent |-> <<>>]
    ELSE [err |-> IF do.err # Nil
                  THEN Wrap(do.err, "could not make register request")
                  ELSE IF do.status # StatusOK
                       THEN RegisterStatusError(do.err)
                       ELSE Nil,
          decrypter |-> OwnKey,
          sent |-> <<RegisterRequest(c, Public(OwnKey)),
                     RegisterRequest(c, Public(OwnKey))>>]

\* generateRSAKeyPair on client c, where step failAt fails ("none": no step
\* does) and the transport answers the register request with do.  Yields the
\* error returned, the decrypter stored in c and the requests sent.
generateRSAKeyPair(c, failAt, do) ==
    IF failAt \in KeygenSteps
    THEN [err |-> Wrap("tink: " \o failAt, KeygenMessage(failAt)),
          decrypter |-> IF failAt \in {"NewHandle", "NewHybridDecrypt"}
                        THEN "" ELSE OwnKey,
          sent |-> <<>>]
    ELSE [err |-> IF do.err # Nil
                  THEN Wrap(do.err, "could not make register request")
                  ELSE IF do.status # StatusOK
                       THEN RegisterStatusError(do.err)
                       ELSE Nil,
          decrypter |-> OwnKey,
          sent |-> <<RegisterRequest(c, Public(OwnKey))>>]

\* New(options), with the client it allocates before generating the keys:
\* secretKey from uuid.New(), correlationID from xid.New().
NewClient(parsed, persistent) ==
    [correlationID |-> "cid-A",
     secretKey |-> "secret-A",
     serverURL |-> [url |-> parsed.url, host |-> parsed.host],
     persistentSession |-> persistent,
     decrypter |-> ""]

\* New(options) with options.ServerURL = raw and options.PersistentSession =
\* persistent, where step failAt of the key generation fails ("none": no step
\* does) and the transport answers the register request with do.
NewWith(raw, persistent, failAt, do) ==
    /\ ~panicked
    /\ newRet = NotCalled
    /\ LET parsed == UrlParse(raw)
           c == NewClient(parsed, persistent)
           gen == generateRSAKeyPair(c, failAt, do)
       IN  IF parsed.err # Nil
           THEN /\ newRet' = [called |-> TRUE, client |-> NoClient,
                              err |-> Wrap(parsed.err, "could not parse server URL")]
                /\ UNCHANGED <<client, requests>>
           ELSE IF gen.err # Nil
           THEN /\ newRet' = [called |-> TRUE, client |-> NoClient, err |-> gen.err]
                /\ requests' = requests \o gen.sent
                /\ UNCHANGED client
           ELSE /\ newRet' = [called |-> TRUE,
                              client |-> [c EXCEPT !.decrypter = gen.decrypter],
                              err |-> Nil]
                /\ client' = [c EXCEPT !.decrypter = gen.decrypter]
                /\ requests' = requests \o gen.sent
    /\ UNCHANGED <<quitChan, closedChans, tasks, polled, closeCalls,
                   closeRet, panicked>>
    /\ UNCHANGED urlVars

New ==
    \E raw \in ServerURLs, persistent \in BOOLEAN,
       failAt \in KeygenSteps \cup {"none"}, do \in DoOutcomes :
        NewWith(raw, persistent, failAt, do)

(***************************************************************************)
(* StartPolling, the goroutine it launches, and StopPolling.               *)
(***************************************************************************)
Tasks == 1..Len(tasks)

\* The goroutine's first select reads the channel its own StartPolling made.
NewTask(chan) ==
    [pc |-> "select", quit |-> chan, ticker |-> "running",
     batch |-> <<>>, idx |-> 0, delivered |-> <<>>]

StartPolling ==
    /\ ~panicked
    /\ client # NoClient
    /\ Len(tasks) < MaxStarts
    /\ 2 * (Len(tasks) + 1) <= MaxLoad
    /\ quitChan' = Len(tasks) + 1
    /\ tasks' = Append(tasks, NewTask(Len(tasks) + 1))
    /\ UNCHANGED <<client, newRet, closedChans, requests,
                   polled, closeCalls, closeRet, panicked>>
    /\ UNCHANGED urlVars

\* The values goroutine t can read from c.quitChan when it enters select
\* again.  StartPolling writes the field with no synchronisation, so the
\* read races with every StartPolling after the one that launched t: it can
\* return the channel of any of them, or still t's own.
QuitChanReads(t) == t..quitChan

\* Back at the top of the for loop, entering select on the channel read.
BackToSelect(t, q) ==
    [tasks[t] EXCEPT !.pc = "select", !.quit = q, !.batch = <<>>,
                     !.idx = 0, !.delivered = <<>>]

PollURL(c) ==
    c.serverURL.url \o "/poll?id=" \o c.correlationID \o "&secret=" \o c.secretKey

\* case <-ticker.C: getInteractions builds the request and hands it to Do.
\* (retryablehttp.NewRequest cannot fail here: the URL is the parsed server
\* URL followed by a fixed path and two identifiers made by New.)
TickerFires(t) ==
    /\ ~panicked
    /\ tasks[t].pc = "select"
    /\ tasks[t].ticker = "running"
    /\ tasks' = [tasks EXCEPT ![t].pc = "poll", ![t].quit = 0]
    /\ polled' = polled \cup {[method |-> "GET", url |-> PollURL(client)]}
    /\ UNCHANGED <<client, newRet, quitChan, closedChans,
                   requests, closeCalls, closeRet, panicked>>
    /\ UNCHANGED urlVars

\* Blobs of the responses the goroutines are working through.
RECURSIVE InFlight(_)
InFlight(n) == IF n = 0 THEN 0 ELSE Len(tasks[n].batch) + InFlight(n - 1)

Load == 2 * Len(tasks) + InFlight(Len(tasks))

\* Blobs the next poll response may carry within the bound.
Room == IF Load < MaxLoad THEN MaxLoad - Load ELSE 0

\* Bodies of a response whose status is not 200 that decode as a
\* PollResponse: empty, or carrying one blob.
ErrorBodies == SeqsUpTo(Blobs, IF Room > 0 THEN 1 ELSE 0)

\* What the poll request can come back with: a transport error, or a
\* response with a status and a body that either does not decode as a
\* PollResponse or does.
PollOutcomes ==
    {[err |-> d.err, status |-> d.status, decodes |-> FALSE, data |-> <<>>] :
        d \in DoOutcomes}
    \cup {[err |-> Nil, status |-> StatusOK, decodes |-> TRUE, data |-> b] :
            b \in SeqsUpTo(Blobs, Room)}
    \cup {[err |-> Nil, status |-> s, decodes |-> TRUE, data |-> b] :
            s \in Statuses \ {StatusOK}, b \in ErrorBodies}

\* PollAccepted with the status code not compared with 200.
PollAccepted_AnyStatus(r) == r.err = Nil /\ r.decodes

\* getInteractions from the return of Do to the start of the range loop:
\* TRUE when the loop over response.Data is entered.
PollAccepted(r) == r.err = Nil /\ r.status = StatusOK /\ r.decodes

\* PollReturnsWith where a failed poll ends the goroutine.
PollReturnsWith_FailureExits(t, r) ==
    /\ ~panicked
    /\ tasks[t].pc = "poll"
    /\ IF r.err = Nil /\ r.status = StatusOK /\ r.decodes
       THEN tasks' = [tasks EXCEPT ![t].pc = "decode", ![t].batch = r.data,
                                   ![t].idx = 1]
       ELSE tasks' = [tasks EXCEPT ![t].pc = "exited", ![t].ticker = "stopped"]
    /\ UNCHANGED <<client, newRet, quitChan, closedChans, requests,
                   polled, closeCalls, closeRet, panicked>>
    /\ UNCHANGED urlVars

\* Do returns r to goroutine t: getInteractions enters the range loop, or
\* takes one of its three early returns.
PollReturnsWith(t, r) ==
    /\ ~panicked
    /\ tasks[t].pc = "poll"
    /\ IF PollAccepted(r)
       THEN tasks' = [tasks EXCEPT ![t].pc = "decode", ![t].batch = r.data,
                                   ![t].idx = 1]
       ELSE tasks' = [tasks EXCEPT ![t].pc = "failed"]
    /\ UNCHANGED <<client, newRet, quitChan, closedChans, requests,
                   polled, closeCalls, closeRet, panicked>>
    /\ UNCHANGED urlVars

PollReturns(t) == \E r \in PollOutcomes : PollReturnsWith(t, r)

\* HandleBlob with the result of Unmarshal ignored.
HandleBlob_ParseUnchecked(c, delivered, blob) ==
    LET dec == Decrypt(c.decrypter, blob)
        parsed == Unmarshal(dec.plaintext)
    IN  IF dec.err # Nil THEN delivered
        ELSE Append(delivered, parsed.interaction)

\* The body of the range loop for one blob: the callback invocations made so
\* far, extended when the blob decrypts and parses.
HandleBlob(c, delivered, blob) ==
    LET dec == Decrypt(c.decrypter, blob)
        parsed == Unmarshal(dec.plaintext)
    IN  IF dec.err # Nil THEN delivered
        ELSE IF parsed.err # Nil THEN delivered
        ELSE Append(delivered, parsed.interaction)

DecodeBlob(t) ==
    /\ ~panicked
    /\ tasks[t].pc = "decode"
    /\ tasks[t].idx <= Len(tasks[t].batch)
    /\ tasks' = [tasks EXCEPT
                    ![t].delivered =
                        HandleBlob(client, tasks[t].delivered,
                                   tasks[t].batch[tasks[t].idx]),
                    ![t].idx = tasks[t].idx + 1]
    /\ UNCHANGED <<client, newRet, quitChan, closedChans,
                   requests, polled, closeCalls, closeRet, panicked>>
    /\ UNCHANGED urlVars

\* getInteractions returns, from the exhausted range loop or from an early
\* return, and the goroutine is back at select.
TickDone(t) ==
    /\ ~panicked
    /\ \/ tasks[t].pc = "failed"
       \/ tasks[t].pc = "decode" /\ tasks[t].idx > Len(tasks[t].batch)
    /\ \E q \in QuitChanReads(t) :
            tasks' = [tasks EXCEPT ![t] = BackToSelect(t, q)]
    /\ UNCHANGED <<client, newRet, quitChan, closedChans,
                   requests, polled, closeCalls, closeRet, panicked>>
    /\ UNCHANGED urlVars

\* case <-c.quitChan: ticker.Stop(); return
QuitObserved(t) ==
    /\ ~panicked
    /\ tasks[t].pc = "select"
    /\ tasks[t].quit \in closedChans
    /\ tasks' = [tasks EXCEPT ![t].pc = "exited", ![t].ticker = "stopped",
                                ![t].quit = 0]
    /\ UNCHANGED <<client, newRet, quitChan, closedChans,
                   requests, polled, closeCalls, closeRet, panicked>>
    /\ UNCHANGED urlVars

\* close(ch) panics on a nil channel and on a closed one.
ClosePanics(ch) == ch = 0 \/ ch \in closedChans

StopPolling ==
    /\ ~panicked
    /\ client # NoClient
    /\ IF ClosePanics(quitChan)
       THEN /\ panicked' = TRUE
            /\ UNCHANGED closedChans
       ELSE /\ closedChans' = closedChans \cup {quitChan}
            /\ UNCHANGED panicked
    /\ UNCHANGED <<client, newRet, quitChan, tasks, requests,
                   polled, closeCalls, closeRet>>
    /\ UNCHANGED urlVars

(***************************************************************************)
(* Close.                                                                  *)
(***************************************************************************)
DeregisterRequest(c) ==
    [method |-> "POST",
     url |-> c.serverURL.url \o "/deregister",
     path |-> "/deregister",
     body |-> [CorrelationID |-> c.correlationID]]

\* What Close returns when the response status is not 200: it wraps err,
\* which is nil once the transport error has been ruled out.
DeregisterStatusError(err) == Wrap(err, "could not deregister to server")

\* CloseSends with persistentSession not consulted.
CloseSends_Always(c) == <<DeregisterRequest(c)>>

\* The requests one Close call on c sends.
CloseSends(c) == IF ~c.persistentSession THEN <<DeregisterRequest(c)>> ELSE <<>>

\* The error one Close call on c returns when the transport answers do.
CloseError(c, do) ==
    IF ~c.persistentSession
    THEN IF do.err # Nil
         THEN Wrap(do.err, "could not make deregister request")
         ELSE IF do.status # StatusOK
              THEN DeregisterStatusError(do.err)
              ELSE Nil
    ELSE Nil

\* No request was made, so there is no answer.
NoAnswer == [err |-> Nil, status |-> 0]

\* CloseWith that also stops the polling, closing the quit channel.
CloseWith_StopsPolling(do) ==
    /\ ~panicked
    /\ client # NoClient
    /\ closeCalls < MaxCloses
    /\ requests' = requests \o CloseSends(client)
    /\ closeRet' = [called |-> TRUE, err |-> CloseError(client, do)]
    /\ closeCalls' = closeCalls + 1
    /\ closedChans' = IF quitChan # 0 THEN closedChans \cup {quitChan}
                      ELSE closedChans
    /\ UNCHANGED <<client, newRet, quitChan, tasks, polled, panicked>>
    /\ UNCHANGED urlVars

\* CloseWith that blanks the identity once the client is deregistered.
CloseWith_ForgetsIdentity(do) ==
    /\ ~panicked
    /\ client # NoClient
    /\ closeCalls < MaxCloses
    /\ requests' = requests \o CloseSends(client)
    /\ closeRet' = [called |-> TRUE, err |-> CloseError(client, do)]
    /\ closeCalls' = closeCalls + 1
    /\ client' = [client EXCEPT !.correlationID = "", !.secretKey = ""]
    /\ UNCHANGED <<newRet, quitChan, closedChans, tasks, polled, panicked>>
    /\ UNCHANGED urlVars

\* c.Close() where the transport answers the deregister request, if one is
\* made, with do.
CloseWith(do) ==
    /\ ~panicked
    /\ client # NoClient
    /\ closeCalls < MaxCloses
    /\ requests' = requests \o CloseSends(client)
    /\ closeRet' = [called |-> TRUE, err |-> CloseError(client, do)]
    /\ closeCalls' = closeCalls + 1
    /\ UNCHANGED <<client, newRet, quitChan, closedChans, tasks,
                   polled, panicked>>
    /\ UNCHANGED urlVars

Close ==
    \E do \in IF client # NoClient /\ client.persistentSession
              THEN {NoAnswer} ELSE DoOutcomes :
        CloseWith(do)

(***************************************************************************)
(* URL and the process-wide objectIDCounter.                               *)
(***************************************************************************)
\* Number of values of a uint32 field, at the model's width.
Word == 2 ^ WordBits

\* uint32(x): truncation to the width of the field.
Uint32(x) == x % Word

\* AddUint32 with the increment lost.
AddUint32_Lost(counter) == Uint32(counter)

\* atomic.AddUint32(&objectIDCounter, 1): the new value of the counter, which
\* is also the value returned.
AddUint32(counter) == Uint32(counter + 1)

\* The bits of v, most significant first, in n binary digits.
RECURSIVE BigEndian(_, _)
BigEndian(v, n) ==
    IF n = 0 THEN <<>> ELSE Append(BigEndian(v \div 2, n - 1), v % 2)

\* binary.BigEndian.PutUint32(random[..], v)
PutUint32(v) == BigEndian(v, WordBits)

\* The alphabet of zbase32.StdEncoding.
ZBase32Alphabet ==
    << "y", "b", "n", "d", "r", "f", "g", "8", "e", "j", "k", "m", "c", "p",
       "q", "x", "o", "t", "1", "u", "w", "i", "s", "z", "a", "3", "4", "5",
       "h", "7", "6", "9" >>

\* The value of up to five bits, the missing low bits taken as zero.
RECURSIVE Quintet(_, _)
Quintet(bits, n) ==
    IF n = 0 THEN 0
    ELSE IF bits = <<>> THEN 2 * Quintet(bits, n - 1)
    ELSE Head(bits) * (2 ^ (n - 1)) + Quintet(Tail(bits), n - 1)

\* zbase32.StdEncoding.EncodeToString: one character per five bits, most
\* significant first, the last group padded with zero bits, no padding
\* characters.
RECURSIVE EncodeToString(_)
EncodeToString(bits) ==
    IF bits = <<>> THEN ""
    ELSE ZBase32Alphabet[Quintet(bits, 5) + 1]
            \o EncodeToString(IF Len(bits) <= 5 THEN <<>>
                              ELSE SubSeq(bits, 6, Len(bits)))

\* The string URL builds from the counter value i and the time now.
URL(c, i, now) ==
    c.correlationID
        \o EncodeToString(PutUint32(Uint32(now)) \o PutUint32(i))
        \o "." \o "" \o c.serverURL.host

\* The clients of the process.
Clients == (IF client = NoClient THEN {} ELSE {client}) \cup peers

\* URL() calls begun so far.
Begun == Cardinality(issued) + Cardinality({g \in Callers : urlCalls[g].pc # "idle"})

\* URLAdd with the add done as a load and a store: a call that loaded the
\* counter before a call still under way stored it obtains, and stores, the
\* same value.
URLAdd_NotAtomic(g, c) ==
    LET under == {h \in Callers : urlCalls[h].pc = "added"}
        new == IF under = {} THEN AddUint32(objectIDCounter)
               ELSE urlCalls[CHOOSE h \in under : TRUE].i
    IN  /\ ~panicked
        /\ urlCalls[g].pc = "idle"
        /\ Begun < MaxCalls
        /\ objectIDCounter' = new
        /\ addCount' = addCount + 1
        /\ urlCalls' = [urlCalls EXCEPT ![g] =
                [pc |-> "added", c |-> c, i |-> new, ord |-> addCount + 1]]
        /\ UNCHANGED <<clock, peers, issued>>
        /\ UNCHANGED pollVars

\* Goroutine g calls c.URL(): up to and including the atomic add.
URLAdd(g, c) ==
    /\ ~panicked
    /\ urlCalls[g].pc = "idle"
    /\ Begun < MaxCalls
    /\ objectIDCounter' = AddUint32(objectIDCounter)
    /\ addCount' = addCount + 1
    /\ urlCalls' = [urlCalls EXCEPT ![g] =
            [pc |-> "added", c |-> c, i |-> AddUint32(objectIDCounter),
             ord |-> addCount + 1]]
    /\ UNCHANGED <<clock, peers, issued>>
    /\ UNCHANGED pollVars

\* The rest of the call: read the clock, build the string, return it.
URLReturn(g) ==
    /\ ~panicked
    /\ urlCalls[g].pc = "added"
    /\ issued' = issued \cup
            {[url |-> URL(urlCalls[g].c, urlCalls[g].i, clock),
              ord |-> urlCalls[g].ord, i |-> urlCalls[g].i, now |-> clock]}
    /\ urlCalls' = [urlCalls EXCEPT ![g] = Idle]
    /\ UNCHANGED <<objectIDCounter, clock, peers, addCount>>
    /\ UNCHANGED pollVars

\* A second passes.
ClockTick ==
    /\ ~panicked
    /\ clock < MaxClock
    /\ clock' = clock + 1
    /\ UNCHANGED <<objectIDCounter, peers, urlCalls, issued, addCount>>
    /\ UNCHANGED pollVars

Next ==
    \/ New
    \/ StartPolling
    \/ StopPolling
    \/ Close
    \/ \E t \in Tasks : TickerFires(t)
    \/ \E t \in Tasks : PollReturns(t)
    \/ \E t \in Tasks : DecodeBlob(t)
    \/ \E t \in Tasks : TickDone(t)
    \/ \E t \in Tasks : QuitObserved(t)

Spec == Init /\ [][Next]_vars

(***************************************************************************)
(* The identifier generator on its own: two clients of one process, both   *)
(* constructed, and goroutines calling URL() on either.                    *)
(***************************************************************************)
\* A client as New leaves it once registration has succeeded.
Constructed(cid, secret, key, persistent) ==
    [NewClient(UrlParse("https://interact.sh"), persistent) EXCEPT
        !.correlationID = cid, !.secretKey = secret, !.decrypter = key]

InitURL ==
    /\ InitURLVars
    /\ client = Constructed("cid-A", "secret-A", OwnKey, FALSE)
    /\ peers = {Constructed("cid-B", "secret-B", "priv-k2", FALSE)}
    /\ newRet = [called |-> TRUE, client |-> client, err |-> Nil]
    /\ requests = <<RegisterRequest(client, Public(OwnKey))>>
    /\ quitChan = 0
    /\ closedChans = {}
    /\ tasks = <<>>
    /\ polled = {}
    /\ closeCalls = 0
    /\ closeRet = NotCalled
    /\ panicked = FALSE

NextURL ==
    \/ \E g \in Callers, c \in Clients : URLAdd(g, c)
    \/ \E g \in Callers : URLReturn(g)
    \/ ClockTick

SpecURL == InitURL /\ [][NextURL]_vars


(***************************************************************************)
(* Properties.                                                             *)
(***************************************************************************)
\* StopPolling has returned and StartPolling has not been called since.
Stopped == quitChan # 0 /\ quitChan \in closedChans /\ ~panicked

\* This step invokes the callback.
CallbackInvoked ==
    \E t \in Tasks : Len(tasks'[t].delivered) > Len(tasks[t].delivered)

\* C1: after StopPolling has returned, no step invokes the callback (until
\* StartPolling is called again).
C1_NoCallbackAfterStop == [][Stopped => ~CallbackInvoked]_vars

\* The inputs on which construction is to fail: an unparsable address, a
\* failing key generation or export step, a register request that meets a
\* transport error or a status other than 200.
ConstructionFails(raw, failAt, do) ==
    \/ UrlParse(raw).err # Nil
    \/ failAt \in KeygenSteps
    \/ do.err # Nil
    \/ do.status # StatusOK

\* C2: New returns an error and no client exactly when the address is
\* unparsable, key generation or export fails, or the register request fails
\* (transport error or non-200 status).
C2_NewFailsIffInputFails ==
    [][\A raw \in ServerURLs, persistent \in BOOLEAN,
          failAt \in KeygenSteps \cup {"none"}, do \in DoOutcomes :
            NewWith(raw, persistent, failAt, do) =>
                /\ (newRet'.err # Nil) <=> ConstructionFails(raw, failAt, do)
                /\ (newRet'.client = NoClient) <=> ConstructionFails(raw, failAt, do)]_vars

\* C3: Close on a non-persistent client returns an error whenever the
\* deregister request meets a transport error or a status other than 200,
\* and no error only when the server answered 200.
C3_CloseReportsFailure ==
    [][\A do \in DoOutcomes :
            (CloseWith(do) /\ ~client.persistentSession) =>
                ((closeRet'.err = Nil) <=> (do.err = Nil /\ do.status = StatusOK))]_vars

\* C4 as claimed: all identifiers returned by URL() calls, on whichever
\* client and from whichever goroutine, are pairwise distinct.
C4_AllDistinct ==
    \A a, b \in issued : a.ord # b.ord => a.url # b.url

\* C4 as amended: two URL() calls with fewer than 2^32 atomic adds of the
\* counter between them (here 2^WordBits) return distinct identifiers; so do
\* any N <= 2^32 calls.
C4_DistinctWithinWrap ==
    \A a, b \in issued :
        (a.ord < b.ord /\ b.ord - a.ord < Word) => a.url # b.url

\* As many identifiers as the counter has values were issued, all in the same
\* second and on both clients of the process, while a further call is under
\* way on another goroutine.
C4_Witness ==
    /\ clock = 0
    /\ Cardinality(issued) = Word
    /\ Cardinality({a.url : a \in issued}) = Word
    /\ \A c \in Clients : \E a \in issued, i \in 0..(Word - 1) : a.url = URL(c, i, 0)
    /\ \E g \in Callers : urlCalls[g].pc = "added"

\* The deregister requests sent so far.
Deregisters == SelectSeq(requests, LAMBDA r : r.path = "/deregister")

\* C5: each Close call on a non-persistent client sends one POST /deregister
\* carrying the client's correlation id, and each Close call on a
\* persistent-session client sends none.
C5_CloseDeregisters ==
    client # NoClient =>
        /\ Len(Deregisters) = IF client.persistentSession THEN 0 ELSE closeCalls
        /\ \A k \in 1..Len(Deregisters) :
            /\ Deregisters[k].method = "POST"
            /\ Deregisters[k].url = "https://interact.sh/deregister"
            /\ Deregisters[k].body = [CorrelationID |-> client.correlationID]

\* One Close call has returned on a non-persistent client and its one request
\* is on the wire.
C5_Witness ==
    /\ client # NoClient
    /\ ~client.persistentSession
    /\ closeCalls = 1
    /\ Len(Deregisters) = 1

\* C6: over the life of a client at most one deregister request is sent.
C6_AtMostOneDeregister == Len(Deregisters) <= 1

\* The callback invocations a batch calls for: one per blob that is an
\* interaction encrypted under the client's public key, in batch order.
RECURSIVE Deliverable(_, _)
Deliverable(c, batch) ==
    IF batch = <<>> THEN <<>>
    ELSE (IF \E i \in Interactions :
                Head(batch) = Encrypt(Public(c.decrypter), Marshal(i))
          THEN <<CHOOSE i \in Interactions :
                    Head(batch) = Encrypt(Public(c.decrypter), Marshal(i))>>
          ELSE <<>>)
         \o Deliverable(c, Tail(batch))

\* C7: while a poll response is worked through, the callback has been
\* invoked exactly once for each blob handled so far that decrypts under the
\* client's key and parses, for no other blob, in the order of the response;
\* at the end of the tick that is the whole response.
C7_CallbackPerDecodableBlob ==
    \A t \in Tasks :
        tasks[t].pc = "decode" =>
            tasks[t].delivered =
                Deliverable(client, SubSeq(tasks[t].batch, 1, tasks[t].idx - 1))

\* A tick is complete whose response held a blob that fails followed by one
\* that decodes, and the callback fired once, for the second.
C7_Witness ==
    \E t \in Tasks :
        /\ tasks[t].pc = "decode"
        /\ tasks[t].idx > Len(tasks[t].batch)
        /\ Len(tasks[t].batch) = 2
        /\ Deliverable(client, <<tasks[t].batch[1]>>) = <<>>
        /\ Deliverable(client, <<tasks[t].batch[2]>>) = <<"http">>
        /\ tasks[t].delivered = <<"http">>

\* Polling is running: StartPolling was called and StopPolling has not been
\* called since.
PollingRunning == quitChan # 0 /\ quitChan \notin closedChans

\* C8: StopPolling on a client whose polling is not running completes without
\* a panic and changes nothing.
C8_StopWhenIdleIsNoOp ==
    [][(StopPolling /\ ~PollingRunning) =>
            (~panicked' /\ UNCHANGED <<client, quitChan, closedChans, tasks>>)]_vars

\* C9: at most one polling goroutine exists per client.
C9_AtMostOneTask ==
    Cardinality({t \in Tasks : tasks[t].pc # "exited"}) <= 1

\* C10: at most one goroutine is inside getInteractions at a time.
C10_TicksNeverOverlap ==
    Cardinality({t \in Tasks : tasks[t].pc \in {"poll", "decode", "failed"}}) <= 1

\* The caller has called StopPolling: it closed a channel, or it panicked.
StopCalled == closedChans # {} \/ panicked

\* C11: until StopPolling is called every goroutine launched by StartPolling
\* keeps running with its ticker: a failed poll returns to select, and from
\* select the next tick starts a new poll.
C11_LoopSurvivesFailures ==
    \A t \in Tasks :
        ~StopCalled =>
            /\ tasks[t].pc # "exited"
            /\ tasks[t].ticker = "running"
            /\ tasks[t].pc = "failed" => ENABLED TickDone(t)
            /\ tasks[t].pc = "select" => ENABLED TickerFires(t)

\* A poll has failed and the goroutine is about to go round the loop.
C11_Witness ==
    \E t \in Tasks : tasks[t].pc = "failed" /\ ~StopCalled

\* The poll request ended in a transport error, a status other than 200 or
\* a body that does not decode.
PollFailed(r) == r.err # Nil \/ r.status # StatusOK \/ ~r.decodes

\* C12: a tick whose poll failed returns without a callback invocation and
\* without an error reaching the caller.
C12_FailedPollIsSilent ==
    [][\A t \in Tasks : \A r \in PollOutcomes :
            (PollReturnsWith(t, r) /\ PollFailed(r)) =>
                /\ tasks'[t].pc = "failed"
                /\ tasks'[t].delivered = <<>>
                /\ ~CallbackInvoked
                /\ UNCHANGED <<newRet, closeRet, panicked>>]_vars

\* A poll has failed, nothing was delivered, and the caller holds no error.
C12_Witness ==
    \E t \in Tasks :
        /\ tasks[t].pc = "failed"
        /\ tasks[t].delivered = <<>>
        /\ newRet.err = Nil
        /\ closeRet = NotCalled
        /\ ~panicked

Registers == SelectSeq(requests, LAMBDA r : r.path = "/register")

\* C13: a constructed client has sent exactly one register request, the
\* first request of all, carrying its public key, secret key and
\* correlation id; whatever is called afterwards sends no other.
C13_RegisteredOnce ==
    /\ Len(Registers) <= 1
    /\ \A r \in polled : r.method = "GET"
    /\ client # NoClient =>
        /\ Len(Registers) = 1
        /\ requests[1] = Registers[1]
        /\ Registers[1].body = [PublicKey |-> Public(client.decrypter),
                                SecretKey |-> client.secretKey,
                                CorrelationID |-> client.correlationID]

\* Polling was started, a tick polled, polling was stopped and Close was
\* called: the one register request is still the only one.
C13_Witness ==
    /\ client # NoClient
    /\ Len(Registers) = 1
    /\ polled # {}
    /\ closedChans # {}
    /\ closeCalls = MaxCloses
    /\ Len(requests) > 1

\* The public key the client exported in its register request.
ExportedKey == Registers[1].body.PublicKey

\* The blob goroutine t handled last in its current tick.
LastHandled(t) == tasks[t].batch[tasks[t].idx - 1]

C15_IdentityFixed ==
    [][client # NoClient =>
            /\ client' # NoClient
            /\ client'.correlationID = client.correlationID
            /\ client'.secretKey = client.secretKey]_vars

\* After polling was started, ticked and stopped and the client closed, the
\* client holds the identity New returned it with.
C15_Witness ==
    /\ client # NoClient
    /\ \E t \in Tasks : tasks[t].pc = "exited"
    /\ polled # {}
    /\ closeCalls > 0
    /\ client.correlationID = newRet.client.correlationID
    /\ client.secretKey = newRet.client.secretKey

PrivateKeys == {kp.priv : kp \in KeyPairs}

PublicKeys == {kp.pub : kp \in KeyPairs}

\* Request r carries no private key in its URL or in any field of its body.
NoPrivateKeyIn(r) ==
    /\ r.url \notin PrivateKeys
    /\ \A f \in DOMAIN r.body : r.body[f] \notin PrivateKeys

\* C16: the register body is a public key, the secret key and the
\* correlation id, the deregister body is the correlation id, the poll
\* request is a bodiless GET whose URL is made of the server URL, the
\* correlation id and the secret key; none carries the private key.
C16_PrivateKeyStaysHome ==
    /\ \A k \in 1..Len(requests) :
        LET r == requests[k]
        IN  /\ NoPrivateKeyIn(r)
            /\ r.path \in {"/register", "/deregister"}
            /\ r.path = "/register" =>
                /\ DOMAIN r.body = {"PublicKey", "SecretKey", "CorrelationID"}
                /\ r.body.PublicKey \in PublicKeys
            /\ r.path = "/deregister" =>
                /\ DOMAIN r.body = {"CorrelationID"}
                /\ r.body.CorrelationID = client.correlationID
    /\ \A r \in polled :
        /\ DOMAIN r = {"method", "url"}
        /\ r.url = client.serverURL.url \o "/poll?id=" \o client.correlationID
                        \o "&secret=" \o client.secretKey
        /\ r.url \notin PrivateKeys

\* The client holds a private key and has sent a request of each kind.
C16_Witness ==
    /\ client # NoClient
    /\ client.decrypter \in PrivateKeys
    /\ Registers # <<>>
    /\ Deregisters # <<>>
    /\ polled # {}

(***************************************************************************)
(* Scheduling.  The Go scheduler runs every runnable goroutine, the ticker *)
(* keeps firing while it is not stopped, and the HTTP client returns from  *)
(* Do (its timeout is finite): each step of a goroutine that stays enabled *)
(* is taken.  select chooses at random among its ready cases, so a case    *)
(* that is ready at infinitely many visits is chosen at one of them.       *)
(***************************************************************************)
TaskFairness(t) ==
    /\ WF_vars(t \in Tasks /\ TickerFires(t))
    /\ WF_vars(t \in Tasks /\ PollReturns(t))
    /\ WF_vars(t \in Tasks /\ DecodeBlob(t))
    /\ WF_vars(t \in Tasks /\ TickDone(t))
    /\ SF_vars(t \in Tasks /\ QuitObserved(t))

FairSpec == Spec /\ \A t \in 1..MaxStarts : TaskFairness(t)

\* StopPolling has been called since goroutine t was launched: it closed
\* the channel of t's StartPolling or of a later one.
StoppedSince(t) == t \in Tasks /\ \E ch \in closedChans : ch >= t

\* C17: every goroutine launched before a StopPolling call eventually stops
\* its ticker and exits (or the process has panicked).
C17_StoppedTasksExit ==
    \A t \in 1..MaxStarts :
        StoppedSince(t) ~>
            \/ panicked
            \/ t \in Tasks /\ tasks[t].pc = "exited" /\ tasks[t].ticker = "stopped"

\* The counter value each URL() call obtained, with the call's place in the
\* order of the adds: calls that have returned and calls under way.
Obtained ==
    {[ord |-> a.ord, i |-> a.i] : a \in issued}
        \cup {[ord |-> urlCalls[g].ord, i |-> urlCalls[g].i] :
                g \in {h \in Callers : urlCalls[h].pc = "added"}}

\* C18 as stated: no two URL() calls obtain the same counter value, and no
\* two that read the same second do.
C18_CounterValuesDistinct ==
    /\ \A a, b \in Obtained : a.ord # b.ord => a.i # b.i
    /\ \A a, b \in issued : (a.ord # b.ord /\ a.now = b.now) => a.i # b.i

\* C18 as amended: no increment is lost, the n-th add of the process
\* obtaining n modulo 2^32 (here 2^WordBits), so that two calls obtain
\* distinct counter values when fewer than 2^32 adds separate them.
C18_NoLostUpdate ==
    /\ objectIDCounter = addCount % Word
    /\ \A a \in Obtained : a.i = a.ord % Word
    /\ \A a, b \in Obtained :
        (a.ord < b.ord /\ b.ord - a.ord < Word) => a.i # b.i

\* Two calls on different clients are under way at once, between their add
\* and their return, after the counter has wrapped.
C18_Witness ==
    /\ \A g \in Callers : urlCalls[g].pc = "added"
    /\ \E g, h \in Callers : urlCalls[g].c # urlCalls[h].c
    /\ addCount > Word
    /\ objectIDCounter = addCount % Word

\* Goroutine t is inside getInteractions.
InTick(t) == tasks[t].pc \in {"poll", "decode", "failed"}

\* The next step of the tick goroutine t is in.
TickStep(t) == PollReturns(t) \/ DecodeBlob(t) \/ TickDone(t)

\* C19: when StopPolling has been called and a goroutine is inside a tick,
\* the tick goes on: its next step can be taken, up to the return of
\* getInteractions, and only then does the goroutine look at quitChan.
C19_StopLetsTickFinish ==
    \A t \in Tasks :
        (StopCalled /\ InTick(t)) =>
            /\ ENABLED TickStep(t)
            /\ ~ENABLED QuitObserved(t)

\* Whatever answer Close gets to its deregister request, or none.
CloseAnswers == DoOutcomes \cup {NoAnswer}

\* C20: a Close call, whatever it returns, leaves the goroutines, the quit
\* channel and the closed channels as they are; after Close, and until
\* StopPolling is called, every goroutine still polls at its next tick and
\* still hands the blobs of its response to the callback.
C20_CloseLeavesPolling ==
    /\ [][\A do \in CloseAnswers :
            CloseWith(do) =>
                UNCHANGED <<tasks, quitChan, closedChans, panicked>>]_vars
    /\ [](\A t \in Tasks :
            (closeCalls > 0 /\ ~StopCalled) =>
                /\ tasks[t].pc # "exited"
                /\ tasks[t].ticker = "running"
                /\ tasks[t].pc = "select" => ENABLED TickerFires(t)
                /\ (tasks[t].pc = "decode" /\ tasks[t].idx <= Len(tasks[t].batch))
                        => ENABLED DecodeBlob(t))

\* Close has been called as often as the bound allows and has failed,
\* StopPolling has not been called, and a goroutine is handing a response
\* to the callback.
C20_Witness ==
    /\ closeCalls = MaxCloses
    /\ closeRet.err # Nil
    /\ ~StopCalled
    /\ \E t \in Tasks :
        /\ tasks[t].pc = "decode"
        /\ tasks[t].delivered # <<>>
        /\ tasks[t].idx <= Len(tasks[t].batch)

====
